---- MODULE Spec2Model ----
(***************************************************************************)
(* A model of spotify-control (src/src/main.rs): one run of `main` from    *)
(* the parsed command line to the end of the process, with every external  *)
(* call (session bus, MPRIS method calls, the Metadata property, the       *)
(* search service, standard input, the artwork download, the desktop       *)
(* notification) recorded in `calls`, and the `unwrap()`s on their results *)
(* and on the program's own data modelled as the panics they are.  Writes  *)
(* to standard output and to the temporary artwork file are taken to       *)
(* succeed; search() is recorded with its query, not its URL.              *)
(*                                                                         *)
(* Strings are TLA+ strings (concatenated with \o); the line read from     *)
(* standard input is a sequence of one-character strings so that `trim`    *)
(* and `parse::<usize>` are computed character by character.  An           *)
(* Option<T> is a sequence of length 0 (None) or 1 (Some).                 *)
(***************************************************************************)
EXTENDS Integers, Sequences, FiniteSets, TLC

VARIABLES
    run,        \* number of the current process run (1 = the first)
    pc,         \* position of the run inside main / play_song / what
    args,       \* Args::parse(): the parsed command line of this run
    track,      \* play_song: `track`, the Vec<Track> returned by search()
    input,      \* play_song: `input`, the String filled by read_line
    uri,        \* play_song: `uri`, Some(format!("spotify:track:{}", id))
    value,      \* the OwnedValue the Metadata property read delivered
    metadata,   \* what(): the Metadata record converted from `value`
    calls,      \* the external calls of this run, in order, with outcome
    stdout      \* the lines this run printed, in order

vars == <<run, pc, args, track, input, uri, value, metadata, calls, stdout>>

----------------------------------------------------------------------------
(* Bounds of the model.                                                    *)

MaxRuns == 2        \* process runs in one behaviour
MaxTracks == 2      \* length of a search result
MaxCount == 1       \* explicit --count values are 0..MaxCount

----------------------------------------------------------------------------
(* Generic helpers.                                                        *)

None == <<>>
Some(x) == <<x>>

Min(a, b) == IF a <= b THEN a ELSE b

\* <[String]>::join(sep)
RECURSIVE Join(_, _)
Join(strs, sep) ==
    IF Len(strs) = 0 THEN ""
    ELSE IF Len(strs) = 1 THEN strs[1]
    ELSE strs[1] \o sep \o Join(Tail(strs), sep)

\* Iterator::take(n) on a Vec
Take(s, n) == SubSeq(s, 1, Min(n, Len(s)))

----------------------------------------------------------------------------
(* Command line (struct Args, enum Commands, enum PlayMode).               *)

DefaultService == "org.mpris.MediaPlayer2.spotify"
OtherService == "org.mpris.MediaPlayer2.vlc"
Services == {DefaultService, OtherService}

DefaultCount == 5

Commands == {"Next", "Previous", "PlayPause", "NowPlaying", "PlaySong"}

Uris == {"spotify:track:t1", "not a uri"}
Queries == {<<"song">>, <<"song", "artist">>}
Counts == (0 .. MaxCount) \cup {DefaultCount}

SimpleArgs ==
    { [service_name |-> s, action |-> a, mode |-> "None", uri |-> "",
       query |-> <<>>, list |-> FALSE, count |-> DefaultCount] :
      s \in Services, a \in Commands \ {"PlaySong"} }

UriArgs ==
    { [service_name |-> s, action |-> "PlaySong", mode |-> "Uri", uri |-> u,
       query |-> <<>>, list |-> FALSE, count |-> DefaultCount] :
      s \in Services, u \in Uris }

SearchArgs ==
    { [service_name |-> s, action |-> "PlaySong", mode |-> "Search",
       uri |-> "", query |-> q, list |-> l, count |-> c] :
      s \in Services, q \in Queries, l \in BOOLEAN, c \in Counts }

ArgsSet == SimpleArgs \cup UriArgs \cup SearchArgs

----------------------------------------------------------------------------
(* Search results (struct Track, Artist, Album): what the search service   *)
(* can answer.  The artists array of a track is whatever the JSON holds,   *)
(* the empty array and empty names included.                               *)

Catalogue ==
    { [name |-> "Song", id |-> "t1", artists |-> <<"Max">>, album |-> "X"],
      [name |-> "Duet", id |-> "t2", artists |-> <<"A", "B">>, album |-> "Y"],
      [name |-> "Trio", id |-> "t3", artists |-> <<"A", "B", "C">>,
       album |-> "Z"],
      [name |-> "Anon", id |-> "t4", artists |-> <<"", "B">>, album |-> "Y"],
      [name |-> "Bare", id |-> "t5", artists |-> <<>>, album |-> "Z"] }

SearchResults == UNION { [1 .. n -> Catalogue] : n \in 0 .. MaxTracks }

\* impl Display for Track: Some(text), or None where split_last().unwrap()
\* panics (no artist).
Display(t) ==
    IF Len(t.artists) = 0 THEN None
    ELSE LET last == t.artists[Len(t.artists)]
             start == SubSeq(t.artists, 1, Len(t.artists) - 1)
             artists == Join(start, ", ")
             artist == IF artists = "" THEN last
                       ELSE artists \o " and " \o last
         IN  Some(t.name \o " by " \o artist \o " on " \o t.album)

\* format!("spotify:track:{}", track.id)
TrackUri(t) == "spotify:track:" \o t.id

----------------------------------------------------------------------------
(* Standard input: the line read_line delivers, as characters.             *)

Digits == <<"0", "1", "2", "3", "4", "5", "6", "7", "8", "9">>

Inputs ==
    { <<Digits[i + 1], "\n">> : i \in 0 .. MaxTracks }
    \cup { <<>>, <<"\n">>, <<"x", "\n">>, <<"-", "1", "\n">>,
           <<"+", "1", "\n">>, <<" ", "0", " ", "\n">>, <<"1", "0", "\n">> }

IsWhitespace(c) == c \in {" ", "\n", "\t", "\r"}

RECURSIVE TrimStart(_)
TrimStart(s) ==
    IF Len(s) > 0 /\ IsWhitespace(s[1]) THEN TrimStart(Tail(s)) ELSE s

RECURSIVE TrimEnd(_)
TrimEnd(s) ==
    IF Len(s) > 0 /\ IsWhitespace(s[Len(s)])
    THEN TrimEnd(SubSeq(s, 1, Len(s) - 1)) ELSE s

\* str::trim
Trim(s) == TrimEnd(TrimStart(s))

IsDigit(c) == \E d \in 1 .. 10 : Digits[d] = c
DigitValue(c) == (CHOOSE d \in 1 .. 10 : Digits[d] = c) - 1

RECURSIVE Decimal(_)
Decimal(s) ==
    IF Len(s) = 0 THEN 0
    ELSE 10 * Decimal(SubSeq(s, 1, Len(s) - 1)) + DigitValue(s[Len(s)])

\* str::parse::<usize>: Some(n), or None for an Err.  An unsigned parse
\* accepts one leading "+", no "-", and needs at least one digit.
ParseUsize(s) ==
    LET digits == IF Len(s) > 0 /\ s[1] = "+" THEN Tail(s) ELSE s
    IN  IF Len(digits) = 0 THEN None
        ELSE IF \A i \in 1 .. Len(digits) : IsDigit(digits[i])
        THEN Some(Decimal(digits))
        ELSE None

\* <[T]>::get(index)
Get(s, i) == IF i + 1 \in 1 .. Len(s) THEN Some(s[i + 1]) ELSE None

----------------------------------------------------------------------------
(* The Metadata property (zvariant Value / OwnedValue).                    *)

Keys == {"xesam:title", "xesam:artist", "xesam:album", "mpris:artUrl"}

\* a value of the shape the conversion downcasts to
GoodValue(k) ==
    CASE k = "xesam:title"  -> [t |-> "Str", s |-> "Title", a |-> <<>>]
      [] k = "xesam:artist" -> [t |-> "Array", s |-> "", a |-> <<"A", "B">>]
      [] k = "xesam:album"  -> [t |-> "Str", s |-> "Album", a |-> <<>>]
      [] k = "mpris:artUrl" -> [t |-> "Str", s |-> "https://art/1", a |-> <<>>]

\* a value of another shape
BadValue(k) ==
    IF k = "xesam:artist" THEN [t |-> "Str", s |-> "A", a |-> <<>>]
    ELSE [t |-> "U32", s |-> "", a |-> <<>>]

EmptyMap == [k \in {} |-> BadValue(k)]

Dicts ==
    UNION { { [k \in S |-> IF k \in G THEN GoodValue(k) ELSE BadValue(k)] :
              G \in SUBSET S } : S \in SUBSET Keys }

OwnedValues ==
    { [kind |-> "Dict", dict |-> d] : d \in Dicts }
    \cup { [kind |-> "Str", dict |-> EmptyMap] }

\* map.get(key).cloned().unwrap().downcast::<String>().unwrap():
\* Some(string), or None where one of the two unwraps panics
GetString(map, k) ==
    IF k \in DOMAIN map /\ map[k].t = "Str" THEN Some(map[k].s) ELSE None

\* the same for downcast::<Vec<String>>()
GetStrings(map, k) ==
    IF k \in DOMAIN map /\ map[k].t = "Array" THEN Some(map[k].a) ELSE None

\* impl Into<Metadata> for OwnedValue: Some(Metadata), or None for a panic
IntoMetadata(v) ==
    LET map == IF v.kind = "Dict" THEN v.dict ELSE EmptyMap
        title == GetString(map, "xesam:title")
        artists == GetStrings(map, "xesam:artist")
        album == GetString(map, "xesam:album")
        artwork == GetString(map, "mpris:artUrl")
    IN  IF title = None \/ artists = None \/ album = None \/ artwork = None
        THEN None
        ELSE Some([title |-> title[1], artists |-> artists[1],
                   album |-> album[1], artwork |-> artwork[1]])

----------------------------------------------------------------------------
(* External calls.                                                         *)

\* a proxy that ignores --service-name
Destination_Default == DefaultService

\* the destination of the PlayerProxy built in main
Destination == args.service_name

\* one external call of the run: what was called, with what, and whether
\* it returned Ok
Call(op, arg, dest, ok) == [op |-> op, arg |-> arg, dest |-> dest, ok |-> ok]

\* a method call or property read through the proxy
BusCall(member, arg, ok) == Call(member, arg, Destination, ok)

\* the outcome of an awaited call followed by unwrap()
Unwrap(ok) == IF ok THEN "done" ELSE "failed"

----------------------------------------------------------------------------
(* The run.                                                                *)

Fresh(a, r) ==
    /\ run = r
    /\ pc = "main"
    /\ args = a
    /\ track = <<>>
    /\ input = <<>>
    /\ uri = None
    /\ value = None
    /\ metadata = None
    /\ calls = <<>>
    /\ stdout = <<>>

Init == \E a \in ArgsSet : Fresh(a, 1)

\* zbus::Connection::session().await.unwrap()
Connect ==
    /\ pc = "main"
    /\ \E ok \in BOOLEAN :
         /\ calls' = Append(calls, Call("Connection::session", "", "", ok))
         /\ pc' = IF ok THEN "connected" ELSE "failed"
    /\ UNCHANGED <<run, args, track, input, uri, value, metadata, stdout>>

\* PlayerProxy::builder(&conn).destination(..).unwrap().build().await.unwrap()
BuildProxy ==
    /\ pc = "connected"
    /\ \E ok \in BOOLEAN :
         /\ calls' = Append(calls, Call("PlayerProxy::build", "",
                                        Destination, ok))
         /\ pc' = IF ok THEN "dispatch" ELSE "failed"
    /\ UNCHANGED <<run, args, track, input, uri, value, metadata, stdout>>

\* Commands::Next => proxy.next().await.unwrap()
CallNext ==
    /\ pc = "dispatch" /\ args.action = "Next"
    /\ \E ok \in BOOLEAN :
         /\ calls' = Append(calls, BusCall("Next", "", ok))
         /\ pc' = Unwrap(ok)
    /\ UNCHANGED <<run, args, track, input, uri, value, metadata, stdout>>

\* Commands::Previous => proxy.previous().await.unwrap()
CallPrevious ==
    /\ pc = "dispatch" /\ args.action = "Previous"
    /\ \E ok \in BOOLEAN :
         /\ calls' = Append(calls, BusCall("Previous", "", ok))
         /\ pc' = Unwrap(ok)
    /\ UNCHANGED <<run, args, track, input, uri, value, metadata, stdout>>

\* Commands::PlayPause => proxy.play_pause().await.unwrap()
CallPlayPause ==
    /\ pc = "dispatch" /\ args.action = "PlayPause"
    /\ \E ok \in BOOLEAN :
         /\ calls' = Append(calls, BusCall("PlayPause", "", ok))
         /\ pc' = Unwrap(ok)
    /\ UNCHANGED <<run, args, track, input, uri, value, metadata, stdout>>

\* Commands::NowPlaying => what(proxy.metadata().await.unwrap()...): the
\* property read, and inside it the conversion of the reply to Metadata
ReadMetadata ==
    /\ pc = "dispatch" /\ args.action = "NowPlaying"
    /\ \/ /\ calls' = Append(calls, BusCall("Metadata", "", FALSE))
          /\ pc' = "failed"
          /\ UNCHANGED <<value, metadata>>
       \/ \E v \in OwnedValues :
            /\ calls' = Append(calls, BusCall("Metadata", "", TRUE))
            /\ value' = Some(v)
            /\ metadata' = IntoMetadata(v)
            /\ pc' = IF IntoMetadata(v) = None THEN "failed" ELSE "what"
    /\ UNCHANGED <<run, args, track, input, uri, stdout>>

\* what: reqwest::get(&metadata.artwork).await.unwrap(), bytes().await.unwrap()
FetchArtwork ==
    /\ pc = "what"
    /\ \E ok \in BOOLEAN :
         /\ calls' = Append(calls, Call("reqwest::get", metadata[1].artwork,
                                        "", ok))
         /\ pc' = IF ok THEN "fetched" ELSE "failed"
    /\ UNCHANGED <<run, args, track, input, uri, value, metadata, stdout>>

\* what: Notification::new()...show().unwrap()
ShowNotification ==
    /\ pc = "fetched"
    /\ \E ok \in BOOLEAN :
         /\ calls' = Append(calls, Call("Notification::show",
                                        metadata[1].title, "", ok))
         /\ pc' = Unwrap(ok)
    /\ UNCHANGED <<run, args, track, input, uri, value, metadata, stdout>>

\* a Uri branch that puts the track scheme in front of the argument
OpenUriDirect_Prefixed ==
    /\ pc = "dispatch" /\ args.action = "PlaySong" /\ args.mode = "Uri"
    /\ \E ok \in BOOLEAN :
         /\ calls' = Append(calls, BusCall("OpenUri",
                                           "spotify:track:" \o args.uri, ok))
         /\ pc' = Unwrap(ok)
    /\ UNCHANGED <<run, args, track, input, uri, value, metadata, stdout>>

\* play_song, PlayMode::Uri { uri } => proxy.open_uri(&uri).await.unwrap()
OpenUriDirect ==
    /\ pc = "dispatch" /\ args.action = "PlaySong" /\ args.mode = "Uri"
    /\ \E ok \in BOOLEAN :
         /\ calls' = Append(calls, BusCall("OpenUri", args.uri, ok))
         /\ pc' = Unwrap(ok)
    /\ UNCHANGED <<run, args, track, input, uri, value, metadata, stdout>>

\* play_song: let query = query.join(" ")
Query == Join(args.query, " ")

\* a search whose failure is taken for an empty result
Search_Lenient ==
    /\ pc = "dispatch" /\ args.action = "PlaySong" /\ args.mode = "Search"
    /\ \/ /\ calls' = Append(calls, Call("search", Query, "", FALSE))
          /\ track' = <<>>
          /\ pc' = "searched"
       \/ \E result \in SearchResults :
            /\ calls' = Append(calls, Call("search", Query, "", TRUE))
            /\ track' = result
            /\ pc' = "searched"
    /\ UNCHANGED <<run, args, input, uri, value, metadata, stdout>>

\* play_song: let track = search(&query).await, with the two unwraps of
\* search (the request, the JSON body)
Search ==
    /\ pc = "dispatch" /\ args.action = "PlaySong" /\ args.mode = "Search"
    /\ \/ /\ calls' = Append(calls, Call("search", Query, "", FALSE))
          /\ pc' = "failed"
          /\ UNCHANGED track
       \/ \E result \in SearchResults :
            /\ calls' = Append(calls, Call("search", Query, "", TRUE))
            /\ track' = result
            /\ pc' = "searched"
    /\ UNCHANGED <<run, args, input, uri, value, metadata, stdout>>

\* the candidates the listing loop iterates over: track.iter().take(count)
Candidates == Take(track, args.count)

\* the lines `println!("{} - {}", i, track)` prints for the first n
\* candidates
Listing(n) ==
    [i \in 1 .. n |-> ToString(i - 1) \o " - " \o Display(Candidates[i])[1]]

\* play_song, `if list`: the listing loop, then the prompt.  The loop stops
\* with a panic at the first candidate that Display cannot format.
ListTracks ==
    /\ pc = "searched" /\ args.list
    /\ LET bad == { i \in 1 .. Len(Candidates) :
                      Display(Candidates[i]) = None }
       IN  IF bad = {}
           THEN /\ stdout' = stdout \o Listing(Len(Candidates))
                               \o <<"Enter a number to play: ">>
                /\ pc' = "prompt"
           ELSE /\ stdout' = stdout \o
                      Listing((CHOOSE i \in bad : \A j \in bad : i <= j) - 1)
                /\ pc' = "failed"
    /\ UNCHANGED <<run, args, track, input, uri, value, metadata, calls>>

\* std::io::stdin().read_line(&mut input).unwrap()
ReadLine ==
    /\ pc = "prompt"
    /\ \/ /\ calls' = Append(calls, Call("stdin.read_line", "", "", FALSE))
          /\ pc' = "failed"
          /\ UNCHANGED input
       \/ \E line \in Inputs :
            /\ calls' = Append(calls, Call("stdin.read_line", "", "", TRUE))
            /\ input' = line
            /\ pc' = "read"
    /\ UNCHANGED <<run, args, track, uri, value, metadata, stdout>>

\* input.trim().parse::<usize>()
Parsed == ParseUsize(Trim(input))

\* track.get(input): the index is looked up in the whole search result
Selected == IF Parsed = None THEN None ELSE Get(track, Parsed[1])

\* println!("Playing {}", track); let uri = format!(...): shared by the two
\* branches that play a track
Announce(t) ==
    IF Display(t) = None
    THEN /\ pc' = "failed"
         /\ UNCHANGED <<stdout, uri>>
    ELSE /\ stdout' = Append(stdout, "Playing " \o Display(t)[1])
         /\ uri' = Some(TrackUri(t))
         /\ pc' = "selected"

\* a selection that asks again after input it cannot use
SelectTrack_Retry ==
    /\ pc = "read"
    /\ IF Selected = None
       THEN /\ pc' = "prompt"
            /\ stdout' = Append(stdout, "Enter a number to play: ")
            /\ UNCHANGED uri
       ELSE Announce(Selected[1])
    /\ UNCHANGED <<run, args, track, input, value, metadata, calls>>

\* play_song, `if list`: parse().unwrap(), track.get(input).unwrap(), the
\* "Playing" line and the uri
SelectTrack ==
    /\ pc = "read"
    /\ IF Selected = None
       THEN /\ pc' = "failed"
            /\ UNCHANGED <<stdout, uri>>
       ELSE Announce(Selected[1])
    /\ UNCHANGED <<run, args, track, input, value, metadata, calls>>

\* play_song, `else if let Some(track) = track.first()`
FirstTrack ==
    /\ pc = "searched" /\ ~args.list /\ Len(track) > 0
    /\ Announce(track[1])
    /\ UNCHANGED <<run, args, track, input, value, metadata, calls>>

\* play_song, `else`: println!("No track found for {}", query)
NoTrackFound ==
    /\ pc = "searched" /\ ~args.list /\ Len(track) = 0
    /\ stdout' = Append(stdout, "No track found for " \o Query)
    /\ pc' = "done"
    /\ UNCHANGED <<run, args, track, input, uri, value, metadata, calls>>

\* play_song: proxy.open_uri(&uri).await.unwrap() of either search branch
OpenSelected ==
    /\ pc = "selected"
    /\ \E ok \in BOOLEAN :
         /\ calls' = Append(calls, BusCall("OpenUri", uri[1], ok))
         /\ pc' = Unwrap(ok)
    /\ UNCHANGED <<run, args, track, input, uri, value, metadata, stdout>>

\* the process has ended; the tool is started again.  Nothing of the ended
\* run is kept: main reads no file and every variable is a local.
NewRun ==
    /\ pc \in {"done", "failed"}
    /\ run < MaxRuns
    /\ run' = run + 1
    /\ pc' = "main"
    /\ args' \in ArgsSet
    /\ track' = <<>>
    /\ input' = <<>>
    /\ uri' = None
    /\ value' = None
    /\ metadata' = None
    /\ calls' = <<>>
    /\ stdout' = <<>>

Next ==
    \/ Connect
    \/ BuildProxy
    \/ CallNext
    \/ CallPrevious
    \/ CallPlayPause
    \/ ReadMetadata
    \/ FetchArtwork
    \/ ShowNotification
    \/ OpenUriDirect
    \/ Search
    \/ ListTracks
    \/ ReadLine
    \/ SelectTrack
    \/ FirstTrack
    \/ NoTrackFound
    \/ OpenSelected
    \/ NewRun

Spec == Init /\ [][Next]_vars

----------------------------------------------------------------------------
(* Vocabulary of the properties.                                           *)

Ended == pc \in {"done", "failed"}

\* the calls of this run to `op`, in order
CallsTo(op) == SelectSeq(calls, LAMBDA c : c.op = op)

\* the bus method calls of this run, in order
MethodCalls ==
    SelectSeq(calls,
              LAMBDA c : c.op \in {"Next", "Previous", "PlayPause", "OpenUri"})

\* main has reached its `match args.action`
Dispatched == Len(calls) >= 2 /\ calls[2].ok

\* search() has returned its Vec<Track> to play_song
SearchReturned == \E i \in 1 .. Len(calls) : calls[i].op = "search" /\ calls[i].ok

\* read_line has returned Ok
LineRead ==
    \E i \in 1 .. Len(calls) : calls[i].op = "stdin.read_line" /\ calls[i].ok

Prompt == "Enter a number to play: "

\* the number of prompts printed so far
Prompts == Len(SelectSeq(stdout, LAMBDA l : l = Prompt))

\* the position in `calls` of the first call to `op`
IndexOf(op) == CHOOSE i \in 1 .. Len(calls) : calls[i].op = op

----------------------------------------------------------------------------
(* C1: metadata extraction is total; a key that is absent or holds a value *)
(* of the wrong shape yields that field's default, every other key the     *)
(* map's own value.                                                        *)

PlaceholderUrl == "https://placeholder/image"

DefaultString(k) == IF k = "mpris:artUrl" THEN PlaceholderUrl ELSE "Unknown"

StringOrDefault(map, k) ==
    IF k \in DOMAIN map /\ map[k].t = "Str" THEN map[k].s
    ELSE DefaultString(k)

StringsOrDefault(map, k) ==
    IF k \in DOMAIN map /\ map[k].t = "Array" THEN map[k].a
    ELSE <<"Unknown">>

Extracted(v) ==
    [title |-> StringOrDefault(v.dict, "xesam:title"),
     artists |-> StringsOrDefault(v.dict, "xesam:artist"),
     album |-> StringOrDefault(v.dict, "xesam:album"),
     artwork |-> StringOrDefault(v.dict, "mpris:artUrl")]

\* C1: whenever the Metadata property has been read, the run holds the
\* fully populated record with defaults for exactly the absent or malformed
\* keys (and has not failed in the conversion).
C1_ExtractionTotal ==
    (value # None /\ value[1].kind = "Dict") =>
        /\ metadata = Some(Extracted(value[1]))
        /\ pc # "failed" \/ ~calls[Len(calls)].ok

----------------------------------------------------------------------------
\* C2: a search that returns no track, in either selection mode, is
\* reported as "No track found for <query>" and the run ends successfully:
\* no prompt, no read of standard input, no OpenUri, no fatal error.
C2_EmptyResultReported ==
    (SearchReturned /\ track = <<>>) =>
        /\ pc \in {"searched", "done"}
        /\ Prompts = 0
        /\ CallsTo("stdin.read_line") = <<>>
        /\ CallsTo("OpenUri") = <<>>
        /\ pc = "done" => stdout = <<"No track found for " \o Query>>

----------------------------------------------------------------------------
\* the line that presents track number i (from 0) of the search result
Presented(i) == ToString(i) \o " - " \o Display(track[i + 1])[1]

\* C3: in list mode, once the listing has run, exactly min(count, n)
\* candidates are on standard output, the first min(count, n) tracks of the
\* result in order and numbered from 0, followed by the prompt; and when
\* the number i of a presented candidate was entered, the run ends with
\* exactly one OpenUri call, for "spotify:track:" and the id of track i.
C3_InteractiveSelection ==
    LET shown == Min(args.count, Len(track))
    IN  /\ (args.list /\ SearchReturned /\ pc # "searched") =>
              /\ Len(stdout) > shown
              /\ stdout[shown + 1] = Prompt
              /\ \A i \in 0 .. shown - 1 :
                    /\ Display(track[i + 1]) # None
                    /\ stdout[i + 1] = Presented(i)
        /\ (LineRead /\ Parsed # None /\ Ended) =>
              (Parsed[1] < shown =>
                 /\ Len(CallsTo("OpenUri")) = 1
                 /\ CallsTo("OpenUri")[1].arg
                      = "spotify:track:" \o track[Parsed[1] + 1].id)

----------------------------------------------------------------------------
\* C4: in list mode, input that is not a number, or a number that is not
\* the number of a presented candidate (at or beyond min(count, n)), is
\* fatal: no OpenUri call is made and the prompt is not issued again.
C4_BadInputFatal ==
    (LineRead /\ (Parsed = None \/ Parsed[1] >= Min(args.count, Len(track))))
        => /\ pc \in {"read", "failed"}
           /\ CallsTo("OpenUri") = <<>>
           /\ Prompts = 1
           /\ Len(CallsTo("stdin.read_line")) = 1

----------------------------------------------------------------------------
\* C5: a play request for Uri(u) makes exactly one OpenUri call, with u
\* unchanged, and neither searches nor reads standard input; standard input
\* is read on the interactive search path only.
C5_UriUnchanged ==
    /\ args.mode = "Uri" =>
          /\ CallsTo("search") = <<>>
          /\ CallsTo("stdin.read_line") = <<>>
          /\ (Dispatched /\ Ended) =>
                /\ Len(MethodCalls) = 1
                /\ MethodCalls[1].op = "OpenUri"
                /\ MethodCalls[1].arg = args.uri
    /\ CallsTo("stdin.read_line") # <<>> =>
          args.mode = "Search" /\ args.list

\* a run that opened a Uri argument that is no track uri, and succeeded
C5_Witness ==
    /\ args.mode = "Uri" /\ args.uri = "not a uri"
    /\ pc = "done"
    /\ Len(CallsTo("OpenUri")) = 1

----------------------------------------------------------------------------
\* C6: a run makes at most one Metadata read, one search call, one prompt
\* and read of standard input and one bus method call; search comes before
\* the prompt and the read, these before OpenUri, and every call but the
\* last of the run has returned.
C6_AtMostOnceInOrder ==
    /\ Len(CallsTo("Metadata")) <= 1
    /\ Len(CallsTo("search")) <= 1
    /\ Len(CallsTo("stdin.read_line")) <= 1
    /\ Prompts <= 1
    /\ Len(MethodCalls) <= 1
    /\ Prompts = 1 => SearchReturned
    /\ CallsTo("stdin.read_line") # <<>> =>
          /\ Prompts = 1
          /\ CallsTo("search") # <<>>
          /\ IndexOf("search") < IndexOf("stdin.read_line")
    /\ (args.mode = "Search" /\ CallsTo("OpenUri") # <<>>) =>
          /\ CallsTo("search") # <<>>
          /\ IndexOf("search") < IndexOf("OpenUri")
          /\ args.list =>
                /\ CallsTo("stdin.read_line") # <<>>
                /\ IndexOf("stdin.read_line") < IndexOf("OpenUri")
    /\ \A i \in 1 .. Len(calls) - 1 : calls[i].ok

\* a list-mode run that searched, read a number and opened the track
C6_Witness ==
    /\ args.list /\ pc = "done"
    /\ Len(CallsTo("search")) = 1
    /\ Len(CallsTo("stdin.read_line")) = 1
    /\ Len(CallsTo("OpenUri")) = 1

----------------------------------------------------------------------------
\* C7: Next, Previous and PlayPause each make exactly one bus method call,
\* of the method of that name on the service of --service-name, and no
\* property read, search or prompt; the call is decided by the command of
\* the current run alone, whatever runs came before.
C7_OneCallPerCommand ==
    (args.action \in {"Next", "Previous", "PlayPause"}) =>
        /\ CallsTo("Metadata") = <<>>
        /\ CallsTo("search") = <<>>
        /\ CallsTo("stdin.read_line") = <<>>
        /\ stdout = <<>>
        /\ (Dispatched /\ Ended) =>
              /\ Len(calls) = 3
              /\ calls[3] = Call(args.action, "", args.service_name,
                                 pc = "done")

\* a second run, for Previous on another service, that made its call
C7_Witness ==
    /\ run = 2
    /\ args.action = "Previous" /\ args.service_name = OtherService
    /\ pc = "done"
    /\ Len(MethodCalls) = 1

----------------------------------------------------------------------------
\* the artist phrase by the number of artists: the one name, or the names
\* but the last joined by ", ", then " and ", then the last name
Phrase(names) ==
    IF Len(names) = 1 THEN names[1]
    ELSE Join(SubSeq(names, 1, Len(names) - 1), ", ")
           \o " and " \o names[Len(names)]

\* C8: a track with at least one artist is formatted as
\* "<name> by <phrase> on <album>", the phrase being the one name when
\* there is one artist and otherwise the names but the last joined by ", ",
\* then " and ", then the last name (read off the "Playing" line of the
\* first-track branch).
C8_ArtistPhrase ==
    (pc = "selected" /\ ~args.list) =>
        stdout[Len(stdout)] =
            "Playing " \o track[1].name \o " by " \o Phrase(track[1].artists)
                \o " on " \o track[1].album

----------------------------------------------------------------------------
\* C9: a call that failed is the last call of its run, and the run has
\* failed: nothing is called after it and it is not called again; after a
\* failed search nothing is printed, so no prompt either.
C9_FailStops ==
    /\ \A i \in 1 .. Len(calls) :
          ~calls[i].ok => (i = Len(calls) /\ pc = "failed")
    /\ (CallsTo("search") # <<>> /\ ~SearchReturned) =>
          /\ stdout = <<>>
          /\ CallsTo("OpenUri") = <<>>
          /\ CallsTo("stdin.read_line") = <<>>

\* a run whose search call failed
C9_Witness ==
    /\ pc = "failed"
    /\ CallsTo("search") # <<>> /\ ~SearchReturned

----------------------------------------------------------------------------
\* C10: without --list, a search that returned at least one track ends
\* with exactly one OpenUri call, for "spotify:track:" and the id of the
\* first track of the result, and no prompt or read of standard input.
C10_FirstTrackPlayed ==
    (~args.list /\ SearchReturned /\ Len(track) > 0) =>
        /\ Prompts = 0
        /\ CallsTo("stdin.read_line") = <<>>
        /\ Ended =>
              /\ Len(CallsTo("OpenUri")) = 1
              /\ CallsTo("OpenUri")[1].arg = "spotify:track:" \o track[1].id

====
